---------------------------- MODULE Spec2Model ----------------------------
(***************************************************************************)
(* Disposable-mail Telegram bot (src/bot.py): the SQLite mailbox store,    *)
(* the conversational handler handle_text and the polling job              *)
(* poll_all_chats, as state machines.                                      *)
(*                                                                         *)
(* Text is a sequence of characters (one-character strings), so that       *)
(* strip(), lower(), isdigit(), int() and split(maxsplit=1) are computed   *)
(* and not assumed.  A button caption is one glyph: captions are only ever *)
(* compared for equality with the stripped input.                          *)
(***************************************************************************)
EXTENDS Integers, Sequences, FiniteSets, Bags, TLC

VARIABLES
    mailboxes,   \* table mailboxes: set of rows
    nextId,      \* AUTOINCREMENT counter of mailboxes.id
    active,      \* table active_mailbox: set of rows [chat_id, mailbox_id]
    seen,        \* table seen_messages: bag of rows [chat_id, message_id]
    accounts,    \* number of accounts the provider has created so far
    mode,        \* context.user_data per chat: the set of pending mode flags
    reply,       \* what the last run of handle_text replied last: [text, markup, raised]
    update,      \* the update the last run of handle_text was called with, and the
                 \* user_data it found: [chat, text, user_data]
    assigned,    \* history: per chat, the user_seq given to each created mailbox
    create,      \* per chat, its call of mailtm_create_account_and_token
    procs,       \* concurrent callers of db_save_mailbox, statement by statement
    inbox,       \* provider: per account, its message ids, newest first
    nextMsg,     \* provider: the next message id
    jobs,        \* running instances of the poll_all_chats job
    delivered    \* history: the bag of [chat_id, message_id] sent by send_message

vars == <<mailboxes, nextId, active, seen, accounts, mode, reply, update, assigned,
          create, procs, inbox, nextMsg, jobs, delivered>>

storeVars == <<mailboxes, nextId, active, seen>>
pollVars == <<inbox, nextMsg, jobs, delivered>>

-----------------------------------------------------------------------------
(* Bounds of the model *)

MaxMailboxes == 2      \* accounts the provider creates
MaxLabelInput == 2     \* rename inputs reach NameMax + MaxLabelInput - 1 characters
MaxMsgs == 3           \* messages the provider receives

Chats == {1, 2}

-----------------------------------------------------------------------------
(* Text *)

AsciiDigits == {"0", "1", "2", "3", "4", "5", "6", "7", "8", "9"}
\* str.isdigit() also accepts digits that int() rejects, such as SUPERSCRIPT TWO.
SUPERSCRIPT_TWO == "sup2"
WhiteSpace == {" "}

DigitValue(ch) ==
    CASE ch = "0" -> 0 [] ch = "1" -> 1 [] ch = "2" -> 2 [] ch = "3" -> 3
      [] ch = "4" -> 4 [] ch = "5" -> 5 [] ch = "6" -> 6 [] ch = "7" -> 7
      [] ch = "8" -> 8 [] ch = "9" -> 9

RECURSIVE lstrip(_)
lstrip(s) ==
    IF s # <<>> /\ Head(s) \in WhiteSpace THEN lstrip(Tail(s)) ELSE s

RECURSIVE rstrip(_)
rstrip(s) ==
    IF s # <<>> /\ s[Len(s)] \in WhiteSpace
    THEN rstrip(SubSeq(s, 1, Len(s) - 1))
    ELSE s

strip(s) == rstrip(lstrip(s))

lower_char(ch) ==
    CASE ch = "S" -> "s" [] ch = "T" -> "t" [] ch = "A" -> "a" [] ch = "R" -> "r"
      [] ch = "W" -> "w" [] OTHER -> ch

lower(s) == [i \in 1..Len(s) |-> lower_char(s[i])]

isdigit(s) ==
    /\ Len(s) > 0
    /\ \A i \in 1..Len(s) : s[i] \in AsciiDigits \cup {SUPERSCRIPT_TWO}

\* int(s) raises ValueError unless every character is a decimal digit.
int_raises(s) == \E i \in 1..Len(s) : s[i] \notin AsciiDigits

RECURSIVE int(_)
int(s) ==
    IF s = <<>> THEN 0
    ELSE 10 * int(SubSeq(s, 1, Len(s) - 1)) + DigitValue(s[Len(s)])

\* Index of the first whitespace character of s, 0 when there is none.
FirstSpace(s) ==
    IF \E i \in 1..Len(s) : s[i] \in WhiteSpace
    THEN CHOOSE i \in 1..Len(s) :
            /\ s[i] \in WhiteSpace
            /\ \A j \in 1..(i - 1) : s[j] \notin WhiteSpace
    ELSE 0

\* str.split(maxsplit=1): the parts of s, at most two, cut at the first run of
\* whitespace; leading whitespace is skipped and an empty remainder is dropped.
split1(s) ==
    LET t == lstrip(s)
        k == FirstSpace(t)
    IN  IF t = <<>> THEN <<>>
        ELSE IF k = 0 THEN <<t>>
        ELSE LET rest == lstrip(SubSeq(t, k + 1, Len(t)))
             IN  IF rest = <<>> THEN <<SubSeq(t, 1, k - 1)>>
                 ELSE <<SubSeq(t, 1, k - 1), rest>>

\* The name as it is, whatever its length.
NoTruncate(s, n) == s

\* name[:n]
truncate(s, n) == IF Len(s) > n THEN SubSeq(s, 1, n) ELSE s

BTN_NEW == <<"[Generate new mail]">>
BTN_CURRENT == <<"[Current mail]">>
BTN_DELETE == <<"[Remove current mail]">>
BTN_LIST == <<"[My saved mails]">>
BTN_REUSE == <<"[Reuse a mail]">>
BTN_RENAME == <<"[Rename a mail]">>
BTN_DELETE_SAVED == <<"[Delete saved mail]">>
BTN_HELP == <<"[Help / Contact]">>
BTN_BACK == <<"[Back to menu]">>
CMD_START == <<"/", "s", "t", "a", "r", "t">>

Buttons ==
    {BTN_NEW, BTN_CURRENT, BTN_DELETE, BTN_LIST, BTN_REUSE, BTN_RENAME,
     BTN_DELETE_SAVED, BTN_HELP, BTN_BACK}

\* The inputs whose branch of handle_text comes before the mode processing.
IsMenuInput(t) == t \in Buttons \/ lower(t) = CMD_START

\* The label length limit of the rename branch.
NameMax == 25

\* A name of n characters.
LongName(n) == [i \in 1..n |-> "x"]

\* The raw message texts the chats send.
Texts ==
    Buttons
    \cup {CMD_START, <<"/", "S", "T", "A", "R", "T">>}
    \cup {<<"1">>, <<"2">>, <<" ", "1", " ">>, <<"0", "2">>}
    \cup {<<SUPERSCRIPT_TWO>>, <<"W">>, <<>>}
    \cup {<<"2", " ", " ", "W", " ", "M">>, <<"W", " ", "1">>}
    \cup {<<"1", " ">> \o LongName(NameMax + n) : n \in 1..(MaxLabelInput - 1)}

-----------------------------------------------------------------------------
(* The store: one operator per db_* function, computing the tables after   *)
(* the call and the value returned.  A mailbox row is                      *)
(* [id, chat_id, user_seq, address, token, label]; password and created_at *)
(* are written and never read.  An address is the number of the provider   *)
(* account, which is also its token; label NULL is the empty text.         *)

NULL == <<>>

Max(S) == CHOOSE x \in S : \A y \in S : y <= x

RowsOf(rows, chat) == {m \in rows : m.chat_id = chat}

\* SELECT COALESCE(MAX(user_seq), 0) + 1 FROM mailboxes WHERE chat_id=?
next_seq(rows, chat) ==
    IF RowsOf(rows, chat) = {} THEN 1
    ELSE Max({m.user_seq : m \in RowsOf(rows, chat)}) + 1

\* UNIQUE(chat_id, user_seq), UNIQUE(chat_id, address)
Conflicts(rows, row) ==
    \E m \in rows :
        /\ m.chat_id = row.chat_id
        /\ (m.user_seq = row.user_seq \/ m.address = row.address)

\* A plain INSERT into a table without the UNIQUE constraints.
InsertUnchecked(rows, row) == rows \cup {row}

\* INSERT OR IGNORE INTO mailboxes: a row that breaks a UNIQUE constraint is dropped.
InsertOrIgnore(rows, row) ==
    IF Conflicts(rows, row) THEN rows ELSE rows \cup {row}

\* SELECT id FROM mailboxes WHERE chat_id=? AND address=?  (the set of ids found)
SelectIdByAddress(rows, chat, address) ==
    {m.id : m \in {x \in RowsOf(rows, chat) : x.address = address}}

NewRow(id, chat, seq, address, token) ==
    [id |-> id, chat_id |-> chat, user_seq |-> seq, address |-> address,
     token |-> token, label |-> NULL]

\* db_save_mailbox run without interruption: the tables after it, the id it
\* returns, and whether cur.fetchone()[0] raised on an empty result.
db_save_mailbox(rows, idCounter, chat, address, token) ==
    LET row == NewRow(idCounter, chat, next_seq(rows, chat), address, token)
        after == InsertOrIgnore(rows, row)
        ids == SelectIdByAddress(after, chat, address)
    IN  [mailboxes |-> after,
         nextId |-> IF row \in after /\ row \notin rows THEN idCounter + 1 ELSE idCounter,
         inserted |-> row \in after /\ row \notin rows,
         user_seq |-> row.user_seq,
         raised |-> ids = {},
         id |-> IF ids = {} THEN 0 ELSE CHOOSE i \in ids : TRUE]

\* ORDER BY user_seq DESC
RECURSIVE SortDesc(_)
SortDesc(S) ==
    IF S = {} THEN <<>>
    ELSE LET top == CHOOSE m \in S : \A x \in S : x.user_seq <= m.user_seq
         IN  <<top>> \o SortDesc(S \ {top})

db_list_mailboxes(chat) == SortDesc(RowsOf(mailboxes, chat))

\* The rows found (none or one).
db_get_mailbox_by_seq(chat, user_seq) ==
    {m \in RowsOf(mailboxes, chat) : m.user_seq = user_seq}

\* A plain INSERT, without ON CONFLICT(chat_id) DO UPDATE.
SetActiveNoUpsert(act, chat, mailbox_id) ==
    act \cup {[chat_id |-> chat, mailbox_id |-> mailbox_id]}

\* INSERT ... ON CONFLICT(chat_id) DO UPDATE SET mailbox_id=excluded.mailbox_id
db_set_active_mailbox(act, chat, mailbox_id) ==
    {a \in act : a.chat_id # chat} \cup {[chat_id |-> chat, mailbox_id |-> mailbox_id]}

\* active_mailbox a JOIN mailboxes m ON m.id = a.mailbox_id WHERE a.chat_id = ?
db_get_active_mailbox(chat) ==
    {m \in mailboxes : \E a \in active : a.chat_id = chat /\ a.mailbox_id = m.id}

\* DELETE FROM active_mailbox, without the WHERE.
DeleteEveryPointer(act, chat) == {}

\* DELETE FROM active_mailbox WHERE chat_id=?
db_delete_active_mailbox_only(act, chat) == {a \in act : a.chat_id # chat}

\* The delete without DELETE FROM active_mailbox.
DeleteSavedKeepPointer(chat, user_seq) ==
    LET found == {m \in RowsOf(mailboxes, chat) : m.user_seq = user_seq}
    IN  [ok |-> found # {}, mailboxes |-> mailboxes \ found, active |-> active]

\* db_delete_saved_by_seq: the value returned and the tables after it.
db_delete_saved_by_seq(chat, user_seq) ==
    LET found == {m \in RowsOf(mailboxes, chat) : m.user_seq = user_seq}
    IN  IF found = {}
        THEN [ok |-> FALSE, mailboxes |-> mailboxes, active |-> active]
        ELSE LET db_id == (CHOOSE m \in found : TRUE).id
             IN  [ok |-> TRUE,
                  mailboxes |-> {m \in mailboxes : ~(m.chat_id = chat /\ m.id = db_id)},
                  active |-> {a \in active :
                                 ~(a.chat_id = chat /\ a.mailbox_id = db_id)}]

\* UPDATE mailboxes SET label=? WHERE chat_id=? AND user_seq=?; rowcount > 0
db_set_label_by_seq(chat, user_seq, label) ==
    [ok |-> \E m \in RowsOf(mailboxes, chat) : m.user_seq = user_seq,
     mailboxes |-> {IF m.chat_id = chat /\ m.user_seq = user_seq
                    THEN [m EXCEPT !.label = label] ELSE m : m \in mailboxes}]

\* The tokens found (none or one).
db_get_token(chat, mailbox_id) ==
    {m.token : m \in {x \in RowsOf(mailboxes, chat) : x.id = mailbox_id}}

SeenRow(chat, message_id) == [chat_id |-> chat, message_id |-> message_id]

\* A lookup that finds nothing.
NeverSeen(ledger, chat, message_id) == FALSE

db_is_seen(ledger, chat, message_id) == BagIn(SeenRow(chat, message_id), ledger)

\* A plain INSERT into a ledger without its PRIMARY KEY.
MarkSeenPlainInsert(ledger, chat, message_id) ==
    ledger (+) SetToBag({SeenRow(chat, message_id)})

\* INSERT OR IGNORE INTO seen_messages, PRIMARY KEY(chat_id, message_id)
db_mark_seen(ledger, chat, message_id) ==
    IF BagIn(SeenRow(chat, message_id), ledger) THEN ledger
    ELSE ledger (+) SetToBag({SeenRow(chat, message_id)})

-----------------------------------------------------------------------------
(* handle_text: one action per branch, each guarded by the failure of the  *)
(* branches before it.  The handler runs to completion between updates     *)
(* (the Application handles one update at a time), and its store calls are *)
(* synchronous, so each branch is one step.                                *)

REUSE_MODE == "reuse_mode"
RENAME_MODE == "rename_mode"
DELETE_SAVED_MODE == "delete_saved_mode"
ModeFlags == {REUSE_MODE, RENAME_MODE, DELETE_SAVED_MODE}

MAIN_MENU == "MAIN_MENU"
MODE_MENU == "MODE_MENU"

NoReply == [text |-> "", markup |-> "", raised |-> FALSE]
\* The value of reply when the replies are not being recorded.
NotRecorded == [text |-> "(not recorded)", markup |-> "", raised |-> FALSE]
Record(r) == IF reply = NotRecorded THEN NotRecorded ELSE r

\* The update of chat c with message text raw (kept only with the replies).
NoUpdate == [chat |-> 0, text |-> <<>>, user_data |-> {}]
Received(c, raw) ==
    IF reply = NotRecorded THEN NoUpdate
    ELSE [chat |-> c, text |-> raw, user_data |-> mode[c]]

Said(c, text, markup) == Record([text |-> text, markup |-> markup, raised |-> FALSE])
\* The handler ended in an exception after its last reply `text`.
Raised(c, text, markup) == Record([text |-> text, markup |-> markup, raised |-> TRUE])

\* The BACK branch without the pop of delete_saved_mode.
BackPopsTwo(c, raw) ==
    /\ strip(raw) = BTN_BACK
    /\ update' = Received(c, raw)
    /\ mode' = [mode EXCEPT ![c] = @ \ {REUSE_MODE, RENAME_MODE}]
    /\ reply' = Said(c, "Menu", MAIN_MENU)
    /\ UNCHANGED <<storeVars, accounts, assigned, procs, create, pollVars>>

\* if txt == BTN_BACK
HandleBack(c, raw) ==
    /\ strip(raw) = BTN_BACK
    /\ update' = Received(c, raw)
    /\ mode' = [mode EXCEPT ![c] = {}]
    /\ reply' = Said(c, "Menu", MAIN_MENU)
    /\ UNCHANGED <<storeVars, accounts, assigned, procs, create, pollVars>>

\* create_new_mail_for_chat: the provider call raises, or it returns a newly
\* created account, which is saved and made the active mailbox.
CreateNewMail(c, said) ==
    \/ /\ reply' = Raised(c, "Creating", MAIN_MENU)
       /\ UNCHANGED <<storeVars, accounts, assigned>>
    \/ /\ accounts < MaxMailboxes
       /\ LET address == accounts + 1
              saved == db_save_mailbox(mailboxes, nextId, c, address, address)
          IN  /\ accounts' = address
              /\ mailboxes' = saved.mailboxes
              /\ nextId' = saved.nextId
              /\ assigned' = IF saved.inserted
                             THEN [assigned EXCEPT ![c] = Append(@, saved.user_seq)]
                             ELSE assigned
              /\ IF saved.raised
                 THEN /\ reply' = Raised(c, "Creating", MAIN_MENU)
                      /\ active' = active
                 ELSE /\ reply' = Said(c, said, MAIN_MENU)
                      /\ active' = db_set_active_mailbox(active, c, saved.id)
       /\ UNCHANGED seen

\* if txt.lower() == "/start"
HandleStart(c, raw) ==
    /\ strip(raw) # BTN_BACK
    /\ update' = Received(c, raw)
    /\ lower(strip(raw)) = CMD_START
    /\ CreateNewMail(c, "Your mail")
    /\ UNCHANGED <<mode, procs, create, pollVars>>

\* if txt == BTN_HELP
HandleHelp(c, raw) ==
    /\ strip(raw) = BTN_HELP
    /\ update' = Received(c, raw)
    /\ reply' = Said(c, "Contact", MAIN_MENU)
    /\ UNCHANGED <<storeVars, accounts, mode, assigned, procs, create, pollVars>>

\* if txt == BTN_CURRENT
HandleCurrent(c, raw) ==
    /\ strip(raw) = BTN_CURRENT
    /\ update' = Received(c, raw)
    /\ reply' = IF db_get_active_mailbox(c) = {}
                THEN Said(c, "No active mail. Tap Generate new mail.", MAIN_MENU)
                ELSE Said(c, "Current mail", MAIN_MENU)
    /\ UNCHANGED <<storeVars, accounts, mode, assigned, procs, create, pollVars>>

\* if txt == BTN_NEW
HandleNew(c, raw) ==
    /\ strip(raw) = BTN_NEW
    /\ update' = Received(c, raw)
    /\ CreateNewMail(c, "Your new mail")
    /\ UNCHANGED <<mode, procs, create, pollVars>>

\* if txt == BTN_DELETE
HandleDelete(c, raw) ==
    /\ strip(raw) = BTN_DELETE
    /\ update' = Received(c, raw)
    /\ IF db_get_active_mailbox(c) = {}
       THEN /\ reply' = Said(c, "No active mail.", MAIN_MENU)
            /\ active' = active
       ELSE /\ active' = db_delete_active_mailbox_only(active, c)
            /\ reply' = Said(c, "Current mail removed", MAIN_MENU)
    /\ UNCHANGED <<mailboxes, nextId, seen, accounts, mode, assigned, procs, create, pollVars>>

\* if txt == BTN_LIST
HandleList(c, raw) ==
    /\ strip(raw) = BTN_LIST
    /\ update' = Received(c, raw)
    /\ reply' = IF db_list_mailboxes(c) = <<>>
                THEN Said(c, "No saved mails yet.", MAIN_MENU)
                ELSE Said(c, "Your saved mails", MAIN_MENU)
    /\ UNCHANGED <<storeVars, accounts, mode, assigned, procs, create, pollVars>>

\* The branches without the test of rows.
EnterModeUnchecked(c, flag, refusal, prompt) ==
    /\ mode' = [mode EXCEPT ![c] = @ \cup {flag}]
    /\ reply' = Said(c, prompt, MODE_MENU)
    /\ UNCHANGED <<storeVars, accounts, assigned, procs, create, pollVars>>

\* The three branches that enter a mode: BTN_REUSE, BTN_RENAME, BTN_DELETE_SAVED.
EnterMode(c, flag, refusal, prompt) ==
    /\ IF db_list_mailboxes(c) = <<>>
       THEN /\ reply' = Said(c, refusal, MAIN_MENU)
            /\ mode' = mode
       ELSE /\ mode' = [mode EXCEPT ![c] = @ \cup {flag}]
            /\ reply' = Said(c, prompt, MODE_MENU)
    /\ UNCHANGED <<storeVars, accounts, assigned, procs, create, pollVars>>

HandleReuse(c, raw) ==
    /\ strip(raw) = BTN_REUSE
    /\ update' = Received(c, raw)
    /\ EnterMode(c, REUSE_MODE, "No saved mails to reuse.", "Send the ID you want to reuse.")

HandleRename(c, raw) ==
    /\ strip(raw) = BTN_RENAME
    /\ update' = Received(c, raw)
    /\ EnterMode(c, RENAME_MODE, "No saved mails to rename.", "Send like this: ID Name")

HandleDeleteSaved(c, raw) ==
    /\ strip(raw) = BTN_DELETE_SAVED
    /\ update' = Received(c, raw)
    /\ EnterMode(c, DELETE_SAVED_MODE, "No saved mails to delete.",
                 "Send the ID you want to delete from saved list.")

\* if context.user_data.get("reuse_mode")
ReuseMode(c, raw) ==
    LET txt == strip(raw)
    IN  /\ ~IsMenuInput(txt)
        /\ update' = Received(c, raw)
        /\ REUSE_MODE \in mode[c]
        /\ IF ~isdigit(txt)
           THEN /\ reply' = Said(c, "Send numeric ID or tap Back.", MODE_MENU)
                /\ UNCHANGED <<active, mode>>
           ELSE IF int_raises(txt)
           THEN /\ reply' = Raised(c, reply.text, reply.markup)
                /\ UNCHANGED <<active, mode>>
           ELSE LET found == db_get_mailbox_by_seq(c, int(txt))
                IN  IF found = {}
                    THEN /\ reply' = Said(c, "Invalid ID. Try again.", MODE_MENU)
                         /\ UNCHANGED <<active, mode>>
                    ELSE /\ active' = db_set_active_mailbox(
                                          active, c, (CHOOSE m \in found : TRUE).id)
                         /\ mode' = [mode EXCEPT ![c] = @ \ {REUSE_MODE}]
                         /\ reply' = Said(c, "Reusing", MAIN_MENU)
        /\ UNCHANGED <<mailboxes, nextId, seen, accounts, assigned, procs, create, pollVars>>

\* if context.user_data.get("delete_saved_mode")
DeleteSavedMode(c, raw) ==
    LET txt == strip(raw)
    IN  /\ ~IsMenuInput(txt)
        /\ update' = Received(c, raw)
        /\ REUSE_MODE \notin mode[c]
        /\ DELETE_SAVED_MODE \in mode[c]
        /\ IF ~isdigit(txt)
           THEN /\ reply' = Said(c, "Send numeric ID or tap Back.", MODE_MENU)
                /\ UNCHANGED <<mailboxes, active, mode>>
           ELSE IF int_raises(txt)
           THEN /\ reply' = Raised(c, reply.text, reply.markup)
                /\ UNCHANGED <<mailboxes, active, mode>>
           ELSE LET res == db_delete_saved_by_seq(c, int(txt))
                IN  /\ mailboxes' = res.mailboxes
                    /\ active' = res.active
                    /\ IF ~res.ok
                       THEN /\ reply' = Said(c, "Invalid ID. Try again.", MODE_MENU)
                            /\ mode' = mode
                       ELSE /\ mode' = [mode EXCEPT ![c] = @ \ {DELETE_SAVED_MODE}]
                            /\ reply' = Said(c, "Deleted from saved list.", MAIN_MENU)
        /\ UNCHANGED <<nextId, seen, accounts, assigned, procs, create, pollVars>>

\* if context.user_data.get("rename_mode")
RenameMode(c, raw) ==
    LET txt == strip(raw)
        parts == split1(txt)
    IN  /\ ~IsMenuInput(txt)
        /\ update' = Received(c, raw)
        /\ REUSE_MODE \notin mode[c]
        /\ DELETE_SAVED_MODE \notin mode[c]
        /\ RENAME_MODE \in mode[c]
        /\ IF ~(Len(parts) = 2 /\ isdigit(parts[1]))
           THEN /\ reply' = Said(c, "Format: ID Name or tap Back.", MODE_MENU)
                /\ UNCHANGED <<mailboxes, mode>>
           ELSE IF int_raises(parts[1])
           THEN /\ reply' = Raised(c, reply.text, reply.markup)
                /\ UNCHANGED <<mailboxes, mode>>
           ELSE LET name == truncate(strip(parts[2]), NameMax)
                    res == db_set_label_by_seq(c, int(parts[1]), name)
                IN  /\ mailboxes' = res.mailboxes
                    /\ IF ~res.ok
                       THEN /\ reply' = Said(c, "Invalid ID. Try again.", MODE_MENU)
                            /\ mode' = mode
                       ELSE /\ mode' = [mode EXCEPT ![c] = @ \ {RENAME_MODE}]
                            /\ reply' = Said(c, "Renamed successfully.", MAIN_MENU)
        /\ UNCHANGED <<nextId, active, seen, accounts, assigned, procs, create, pollVars>>

\* fallback
HandleFallback(c, raw) ==
    /\ ~IsMenuInput(strip(raw))
    /\ update' = Received(c, raw)
    /\ mode[c] = {}
    /\ reply' = Said(c, "Use menu buttons", MAIN_MENU)
    /\ UNCHANGED <<storeVars, accounts, mode, assigned, procs, create, pollVars>>

-----------------------------------------------------------------------------
(* poll_all_chats, the repeating job.  The coroutine gives up control only *)
(* at its awaits (list, read, send): a step runs from one await's answer   *)
(* to the next await.  The provider numbers the messages as they arrive    *)
(* and lists an account's messages newest first.  A job record holds the   *)
(* coroutine's locals and, in sent, what it has sent for the chat at hand. *)

JobIds == {1, 2}

IdleJob ==
    [pc |-> "idle", actives |-> <<>>, i |-> 0, token |-> 0,
     new_ids |-> <<>>, p |-> 0, sent |-> <<>>]

Running(J) == J.pc # "idle"

\* SELECT chat_id, mailbox_id FROM active_mailbox: the rows in rowid order, and
\* chat_id, the INTEGER PRIMARY KEY, is the rowid.
RECURSIVE ByChat(_)
ByChat(rows) ==
    IF rows = {} THEN <<>>
    ELSE LET first == CHOOSE a \in rows : \A b \in rows : a.chat_id <= b.chat_id
         IN  <<first>> \o ByChat(rows \ {first})

\* new_ids as listed, not reversed.
SameOrder(s) == s

\* reversed(new_ids)
RECURSIVE reversed(_)
reversed(s) == IF s = <<>> THEN <<>> ELSE Append(reversed(Tail(s)), Head(s))

\* for chat_id, mailbox_id in actives, from index idx on: chats without a token
\* are passed over; the first with one is polled (await mailtm_list_messages);
\* past the last, the cycle is over.
RECURSIVE BeginChat(_, _)
BeginChat(J, idx) ==
    IF idx > Len(J.actives) THEN IdleJob
    ELSE LET a == J.actives[idx]
             tokens == db_get_token(a.chat_id, a.mailbox_id)
         IN  IF tokens = {}
             THEN BeginChat(J, idx + 1)
             ELSE [J EXCEPT !.pc = "list", !.i = idx,
                            !.token = CHOOSE t \in tokens : TRUE,
                            !.new_ids = <<>>, !.p = 0, !.sent = <<>>]

\* for mid in reversed(new_ids): the next message is read (await
\* mailtm_read_message); after the last, the next chat.
NextMessage(J) ==
    IF J.p < Len(J.new_ids)
    THEN [J EXCEPT !.pc = "read", !.p = J.p + 1]
    ELSE BeginChat(J, J.i + 1)

\* The exception leaves the job: the cycle ends.
AbortCycle(J) == IdleJob

\* except Exception: continue  (reading, formatting or sending raised)
SkipMessage(J) == NextMessage(J)

\* except Exception: continue  (mailtm_list_messages raised)
SkipChat(J) == BeginChat(J, J.i + 1)

ChatOf(J) == J.actives[J.i].chat_id
MidOf(J) == reversed(J.new_ids)[J.p]

\* A scheduler that starts an instance at every tick.
StartAnyway == TRUE

\* main registers poll_all_chats once, with run_repeating and no job_kwargs, so
\* the job runs under the defaults of the JobQueue's scheduler (APScheduler,
\* max_instances = 1): an instance is started at a tick only when no instance
\* of the job is still running; otherwise the tick is skipped.  poll_all_chats
\* has no guard of its own.
MayStart == \A j \in JobIds : ~Running(jobs[j])

\* A tick of the interval timer: poll_all_chats up to its first await.
Tick(j) ==
    /\ ~Running(jobs[j])
    /\ \A i \in JobIds : i < j => Running(jobs[i])
    /\ IF MayStart
       THEN jobs' = [jobs EXCEPT ![j] =
                        IF active = {} THEN IdleJob
                        ELSE BeginChat([IdleJob EXCEPT !.actives = ByChat(active)], 1)]
       ELSE jobs' = jobs
    /\ UNCHANGED <<storeVars, accounts, mode, reply, update, assigned, procs, create,
                   inbox, nextMsg, delivered>>

\* mailtm_list_messages raised: the chat is skipped.
ListFailed(j) ==
    /\ jobs[j].pc = "list"
    /\ jobs' = [jobs EXCEPT ![j] = SkipChat(jobs[j])]
    /\ UNCHANGED <<storeVars, accounts, mode, reply, update, assigned, procs, create,
                   inbox, nextMsg, delivered>>

\* mailtm_list_messages answered: the unseen ids are taken in the order listed.
ListDone(j) ==
    LET J == jobs[j]
        msgs == inbox[J.token]
        new_ids == SelectSeq(msgs, LAMBDA mid : ~db_is_seen(seen, ChatOf(J), mid))
    IN  /\ J.pc = "list"
        /\ jobs' = [jobs EXCEPT ![j] = NextMessage([J EXCEPT !.new_ids = new_ids, !.p = 0])]
        /\ UNCHANGED <<storeVars, accounts, mode, reply, update, assigned, procs, create,
                       inbox, nextMsg, delivered>>

\* mailtm_read_message or format_full_message raised: the message is skipped.
ReadFailed(j) ==
    /\ jobs[j].pc = "read"
    /\ jobs' = [jobs EXCEPT ![j] = SkipMessage(jobs[j])]
    /\ UNCHANGED <<storeVars, accounts, mode, reply, update, assigned, procs, create,
                   inbox, nextMsg, delivered>>

\* The message was read and formatted: await context.bot.send_message.
ReadDone(j) ==
    /\ jobs[j].pc = "read"
    /\ jobs' = [jobs EXCEPT ![j].pc = "send"]
    /\ UNCHANGED <<storeVars, accounts, mode, reply, update, assigned, procs, create,
                   inbox, nextMsg, delivered>>

\* The failed message is marked seen all the same.
SendFailedMarksSeen(j) ==
    /\ jobs[j].pc = "send"
    /\ seen' = db_mark_seen(seen, ChatOf(jobs[j]), MidOf(jobs[j]))
    /\ jobs' = [jobs EXCEPT ![j] = SkipMessage(jobs[j])]
    /\ UNCHANGED <<mailboxes, nextId, active, accounts, mode, reply, update, assigned,
                   procs, create, inbox, nextMsg, delivered>>

\* send_message raised: the message is skipped, and not marked seen.
SendFailed(j) ==
    /\ jobs[j].pc = "send"
    /\ jobs' = [jobs EXCEPT ![j] = SkipMessage(jobs[j])]
    /\ UNCHANGED <<storeVars, accounts, mode, reply, update, assigned, procs, create,
                   inbox, nextMsg, delivered>>

\* send_message answered: the message is marked seen.
SendDone(j) ==
    LET J == jobs[j]
    IN  /\ J.pc = "send"
        /\ delivered' = delivered (+) SetToBag({SeenRow(ChatOf(J), MidOf(J))})
        /\ seen' = db_mark_seen(seen, ChatOf(J), MidOf(J))
        /\ jobs' = [jobs EXCEPT ![j] = NextMessage([J EXCEPT !.sent = Append(@, MidOf(J))])]
        /\ UNCHANGED <<mailboxes, nextId, active, accounts, mode, reply, update, assigned,
                       procs, create, inbox, nextMsg>>

\* The provider receives a message for one of its accounts.
ProviderReceive(a) ==
    /\ a \in 1..accounts
    /\ nextMsg <= MaxMsgs
    /\ inbox' = [inbox EXCEPT ![a] = <<nextMsg>> \o @]
    /\ nextMsg' = nextMsg + 1
    /\ UNCHANGED <<storeVars, accounts, mode, reply, update, assigned, procs, create,
                   jobs, delivered>>

-----------------------------------------------------------------------------
(* mailtm_create_account_and_token, one call per chat (the handlers of two  *)
(* chats may be at its awaits at the same time).  A step runs from the      *)
(* answer of one request to the next request.  A response is                *)
(* [raised, status]: raised when the request ended in a transport           *)
(* exception, else the HTTP status.  An address is [local, domain], local   *)
(* the number of hex characters of its random local part.                   *)

\* secrets.token_hex(6), secrets.token_hex(7): the bytes of the local part.
FirstHexBytes == 6
RetryHexBytes == 7

token_hex_len(nbytes) == 2 * nbytes

TransportError == [raised |-> TRUE, status |-> 0]
Http(status) == [raised |-> FALSE, status |-> status]

\* The responses of the provider to POST /accounts and POST /token.
AccountResponses == {Http(201), Http(422), Http(500), TransportError}
TokenResponses == {Http(200), Http(401), TransportError}

\* The answers to GET /domains: a failure, or the list hydra:member.
DomainAnswers ==
    {[response |-> TransportError, items |-> <<>>],
     [response |-> Http(500), items |-> <<>>],
     [response |-> Http(200), items |-> <<>>],
     [response |-> Http(200), items |-> <<[domain |-> 1, isActive |-> FALSE]>>],
     [response |-> Http(200), items |-> <<[domain |-> 1, isActive |-> FALSE],
                                          [domain |-> 2, isActive |-> TRUE]>>]}

\* Response.raise_for_status() raises.
raise_for_status(r) == r.status >= 400

\* mailtm_get_random_domain: the domain chosen from the answer, 0 when it raises.
mailtm_get_random_domain(answer) ==
    IF answer.response.raised \/ raise_for_status(answer.response) THEN 0
    ELSE IF answer.items = <<>> THEN 0
    ELSE IF \E i \in 1..Len(answer.items) : answer.items[i].isActive
    THEN answer.items[CHOOSE i \in 1..Len(answer.items) :
                          /\ answer.items[i].isActive
                          /\ \A k \in 1..(i - 1) : ~answer.items[k].isActive].domain
    ELSE answer.items[1].domain

\* posted: the addresses sent to POST /accounts; answers: the responses to
\* them; token_for: the addresses sent to POST /token.
IdleCall ==
    [pc |-> "idle", domain |-> 0, address |-> [local |-> 0, domain |-> 0],
     posted |-> <<>>, answers |-> <<>>, token_for |-> {}]

\* The first response at or above 400 is retried, whatever its status.
RetryOn(r) == r.status >= 400

\* The call is made: GET /domains is sent.
CreateCall(c) ==
    /\ create[c].pc \in {"idle", "returned", "raised"}
    /\ create' = [create EXCEPT ![c] = [IdleCall EXCEPT !.pc = "domains"]]
    /\ UNCHANGED <<storeVars, accounts, mode, reply, update, assigned, procs, pollVars>>

\* GET /domains is answered: the call raises, or the first address is posted.
DomainsAnswered(c, answer) ==
    LET K == create[c]
        domain == mailtm_get_random_domain(answer)
        address == [local |-> token_hex_len(FirstHexBytes), domain |-> domain]
    IN  /\ K.pc = "domains"
        /\ create' = [create EXCEPT ![c] =
                          IF domain = 0 THEN [K EXCEPT !.pc = "raised"]
                          ELSE [K EXCEPT !.pc = "accounts", !.domain = domain,
                                         !.address = address,
                                         !.posted = <<address>>]]
        /\ UNCHANGED <<storeVars, accounts, mode, reply, update, assigned, procs,
                       pollVars>>

\* The first POST /accounts is answered: if r1.status_code >= 400 a second
\* address is posted; else POST /token is sent for the address.
FirstAnswered(c, r) ==
    LET K == create[c]
        again == [local |-> token_hex_len(RetryHexBytes), domain |-> K.domain]
    IN  /\ K.pc = "accounts"
        /\ Len(K.answers) = 0
        /\ create' = [create EXCEPT ![c] =
                          IF r.raised
                          THEN [K EXCEPT !.pc = "raised", !.answers = <<r>>]
                          ELSE IF RetryOn(r)
                          THEN [K EXCEPT !.address = again, !.answers = <<r>>,
                                         !.posted = Append(@, again)]
                          ELSE [K EXCEPT !.pc = "token", !.answers = <<r>>,
                                         !.token_for = {K.address}]]
        /\ UNCHANGED <<storeVars, accounts, mode, reply, update, assigned, procs,
                       pollVars>>

\* The second POST /accounts is answered: r1.raise_for_status(), then POST /token.
SecondAnswered(c, r) ==
    LET K == create[c]
    IN  /\ K.pc = "accounts"
        /\ Len(K.answers) = 1
        /\ create' = [create EXCEPT ![c] =
                          IF r.raised \/ raise_for_status(r)
                          THEN [K EXCEPT !.pc = "raised", !.answers = Append(@, r)]
                          ELSE [K EXCEPT !.pc = "token", !.answers = Append(@, r),
                                         !.token_for = {K.address}]]
        /\ UNCHANGED <<storeVars, accounts, mode, reply, update, assigned, procs,
                       pollVars>>

\* POST /token is answered: r2.raise_for_status(); return address, password, token.
TokenAnswered(c, r) ==
    LET K == create[c]
    IN  /\ K.pc = "token"
        /\ create' = [create EXCEPT ![c].pc =
                          IF r.raised \/ raise_for_status(r) THEN "raised"
                          ELSE "returned"]
        /\ UNCHANGED <<storeVars, accounts, mode, reply, update, assigned, procs,
                       pollVars>>

-----------------------------------------------------------------------------
(* The store under concurrent callers.  Every db_* function opens its own  *)
(* connection, and db_save_mailbox runs three statements on it: SELECT     *)
(* MAX, INSERT OR IGNORE (committed), SELECT id.  SQLite runs each         *)
(* statement atomically; callers on different connections interleave       *)
(* between statements.                                                     *)

Callers == {1, 2}

IdleProc == [pc |-> "idle", chat |-> 0, address |-> 0, next_seq |-> 0, ret |-> 0]

\* db_save_mailbox(chat_id, address, password, token) is called.
SaveCall(p, chat, address) ==
    /\ procs[p].pc \in {"idle", "returned"}
    /\ nextId <= MaxMailboxes
    /\ procs' = [procs EXCEPT ![p] =
                     [pc |-> "select_max", chat |-> chat, address |-> address,
                      next_seq |-> 0, ret |-> 0]]
    /\ UNCHANGED <<storeVars, accounts, mode, reply, update, assigned, create, pollVars>>

\* next_seq = cur.fetchone()[0]
SaveSelectMax(p) ==
    /\ procs[p].pc = "select_max"
    /\ procs' = [procs EXCEPT ![p].pc = "insert",
                              ![p].next_seq = next_seq(mailboxes, procs[p].chat)]
    /\ UNCHANGED <<storeVars, accounts, mode, reply, update, assigned, create, pollVars>>

\* INSERT OR IGNORE ...; con.commit()
SaveInsert(p) ==
    LET P == procs[p]
        row == NewRow(nextId, P.chat, P.next_seq, P.address, P.address)
        after == InsertOrIgnore(mailboxes, row)
    IN  /\ P.pc = "insert"
        /\ mailboxes' = after
        /\ nextId' = IF after # mailboxes THEN nextId + 1 ELSE nextId
        /\ assigned' = IF after # mailboxes /\ P.chat \in DOMAIN assigned
                       THEN [assigned EXCEPT ![P.chat] = Append(@, P.next_seq)]
                       ELSE assigned
        /\ procs' = [procs EXCEPT ![p].pc = "select_id"]
        /\ UNCHANGED <<active, seen, accounts, mode, reply, update, create, pollVars>>

\* mailbox_id = cur.fetchone()[0]; return mailbox_id.  fetchone() is None when
\* no row has the address, and None[0] raises TypeError.
SaveSelectId(p) ==
    LET P == procs[p]
        ids == SelectIdByAddress(mailboxes, P.chat, P.address)
    IN  /\ P.pc = "select_id"
        /\ procs' = [procs EXCEPT ![p] =
                         IF ids = {} THEN [P EXCEPT !.pc = "raised"]
                         ELSE [P EXCEPT !.pc = "returned",
                                        !.ret = CHOOSE i \in ids : TRUE]]
        /\ UNCHANGED <<storeVars, accounts, mode, reply, update, assigned, create, pollVars>>

\* db_delete_saved_by_seq(chat_id, user_seq) is called.
DeleteCall(chat, user_seq) ==
    LET res == db_delete_saved_by_seq(chat, user_seq)
    IN  /\ res.ok
        /\ mailboxes' = res.mailboxes
        /\ active' = res.active
        /\ UNCHANGED <<nextId, seen, accounts, mode, reply, update, assigned, procs,
                       create, pollVars>>

\* db_set_active_mailbox(chat_id, mailbox_id) is called with a mailbox of the chat.
SetActiveCall(chat, mailbox_id) ==
    /\ db_get_token(chat, mailbox_id) # {}
    /\ active' = db_set_active_mailbox(active, chat, mailbox_id)
    /\ UNCHANGED <<mailboxes, nextId, seen, accounts, mode, reply, update, assigned,
                   procs, create,
                   pollVars>>

-----------------------------------------------------------------------------
(* Specifications *)

Init ==
    /\ mailboxes = {}
    /\ nextId = 1
    /\ active = {}
    /\ seen = EmptyBag
    /\ accounts = 0
    /\ mode = [c \in Chats |-> {}]
    /\ reply = NoReply
    /\ update = NoUpdate
    /\ assigned = [c \in Chats |-> <<>>]
    /\ create = [c \in Chats |-> IdleCall]
    /\ procs = [p \in Callers |-> IdleProc]
    /\ inbox = [a \in 1..MaxMailboxes |-> <<>>]
    /\ nextMsg = 1
    /\ jobs = [j \in JobIds |-> IdleJob]
    /\ delivered = EmptyBag

\* The same, the replies not recorded.
InitQuiet ==
    /\ mailboxes = {}
    /\ nextId = 1
    /\ active = {}
    /\ seen = EmptyBag
    /\ accounts = 0
    /\ mode = [c \in Chats |-> {}]
    /\ reply = NotRecorded
    /\ update = NoUpdate
    /\ assigned = [c \in Chats |-> <<>>]
    /\ create = [c \in Chats |-> IdleCall]
    /\ procs = [p \in Callers |-> IdleProc]
    /\ inbox = [a \in 1..MaxMailboxes |-> <<>>]
    /\ nextMsg = 1
    /\ jobs = [j \in JobIds |-> IdleJob]
    /\ delivered = EmptyBag

\* The chats talking to the handler.
Next ==
    \E c \in Chats, raw \in Texts :
        \/ HandleBack(c, raw)
        \/ HandleStart(c, raw)
        \/ HandleHelp(c, raw)
        \/ HandleCurrent(c, raw)
        \/ HandleNew(c, raw)
        \/ HandleDelete(c, raw)
        \/ HandleList(c, raw)
        \/ HandleReuse(c, raw)
        \/ HandleRename(c, raw)
        \/ HandleDeleteSaved(c, raw)
        \/ ReuseMode(c, raw)
        \/ DeleteSavedMode(c, raw)
        \/ RenameMode(c, raw)
        \/ HandleFallback(c, raw)

\* The handler with its replies recorded.
Spec == Init /\ [][Next]_vars

\* The handler and the store.
SpecQuiet == InitQuiet /\ [][Next]_vars

\* The texts of the chats while the job is watched: the inputs that change the
\* mailboxes and the active pointer.
PollTexts ==
    {BTN_NEW, BTN_DELETE, BTN_REUSE, BTN_DELETE_SAVED, <<"1">>, <<"2">>}

\* The job, the provider and the chats together.
NextPoll ==
    \/ \E j \in JobIds :
           \/ Tick(j)
           \/ ListFailed(j)
           \/ ListDone(j)
           \/ ReadFailed(j)
           \/ ReadDone(j)
           \/ SendFailed(j)
           \/ SendDone(j)
    \/ \E a \in 1..MaxMailboxes : ProviderReceive(a)
    \/ \E c \in Chats, raw \in PollTexts :
           \/ HandleNew(c, raw)
           \/ HandleDelete(c, raw)
           \/ HandleReuse(c, raw)
           \/ HandleDeleteSaved(c, raw)
           \/ ReuseMode(c, raw)
           \/ DeleteSavedMode(c, raw)

SpecPoll == InitQuiet /\ [][NextPoll]_vars

\* Concurrent callers of the store.
NextStore ==
    \/ \E p \in Callers :
           \/ \E chat \in Chats, address \in 1..MaxMailboxes : SaveCall(p, chat, address)
           \/ SaveSelectMax(p)
           \/ SaveInsert(p)
           \/ SaveSelectId(p)
    \/ \E chat \in Chats, n \in 1..MaxMailboxes :
           \/ DeleteCall(chat, n)
           \/ SetActiveCall(chat, n)

SpecStore == InitQuiet /\ [][NextStore]_vars

\* The texts of the other chats while one chat's conversation is watched.
OtherTexts == {BTN_NEW, BTN_DELETE_SAVED, <<"1">>}

\* One chat in conversation with the handler, the other chats creating and
\* deleting mailboxes of their own.
NextTalk ==
    \/ \E raw \in Texts :
           \/ HandleBack(1, raw)
           \/ HandleStart(1, raw)
           \/ HandleHelp(1, raw)
           \/ HandleCurrent(1, raw)
           \/ HandleNew(1, raw)
           \/ HandleDelete(1, raw)
           \/ HandleList(1, raw)
           \/ HandleReuse(1, raw)
           \/ HandleRename(1, raw)
           \/ HandleDeleteSaved(1, raw)
           \/ ReuseMode(1, raw)
           \/ DeleteSavedMode(1, raw)
           \/ RenameMode(1, raw)
           \/ HandleFallback(1, raw)
    \/ \E c \in Chats \ {1}, raw \in OtherTexts :
           \/ HandleNew(c, raw)
           \/ HandleDeleteSaved(c, raw)
           \/ DeleteSavedMode(c, raw)

SpecTalk == Init /\ [][NextTalk]_vars

\* The job under a scheduler that keeps ticking, with a provider and a
\* transport whose calls fail now and then but not forever: a call that is
\* made again and again for a chat, or for a message of a chat, succeeds in
\* the end.  The chats ask for new mails.
NextRetry ==
    \/ \E j \in JobIds :
           \/ Tick(j)
           \/ ListFailed(j)
           \/ ListDone(j)
           \/ ReadFailed(j)
           \/ ReadDone(j)
           \/ SendFailed(j)
           \/ SendDone(j)
    \/ \E a \in 1..MaxMailboxes : ProviderReceive(a)
    \/ \E c \in Chats : HandleNew(c, BTN_NEW)

\* Job j is at chat c; job j is at message mid (a message id belongs to one
\* account, and an account to one chat).
AtChat(j, c) == Running(jobs[j]) /\ ChatOf(jobs[j]) = c
AtMessage(j, mid) == jobs[j].pc \in {"read", "send"} /\ MidOf(jobs[j]) = mid

FairRetry ==
    /\ WF_vars(\E j \in JobIds : Tick(j))
    /\ \A c \in Chats :
           SF_vars(\E j \in JobIds : ListDone(j) /\ AtChat(j, c))
    /\ \A mid \in 1..MaxMsgs :
           /\ SF_vars(\E j \in JobIds : ReadDone(j) /\ AtMessage(j, mid))
           /\ SF_vars(\E j \in JobIds : SendDone(j) /\ AtMessage(j, mid))

SpecRetry == InitQuiet /\ [][NextRetry]_vars /\ FairRetry

\* The chats creating accounts at the provider.
NextCreate ==
    \E c \in Chats :
        \/ CreateCall(c)
        \/ \E answer \in DomainAnswers : DomainsAnswered(c, answer)
        \/ \E r \in AccountResponses : FirstAnswered(c, r)
        \/ \E r \in AccountResponses : SecondAnswered(c, r)
        \/ \E r \in TokenResponses : TokenAnswered(c, r)

SpecCreate == InitQuiet /\ [][NextCreate]_vars

-----------------------------------------------------------------------------
(* Properties *)

Pointers(c) == {a \in active : a.chat_id = c}

\* Position of x in the sequence s (0 when absent).
Pos(s, x) == IF \E n \in 1..Len(s) : s[n] = x
             THEN CHOOSE n \in 1..Len(s) : s[n] = x
             ELSE 0

\* C1: the k-th mailbox created for a chat gets user_seq k, so the user_seq
\* values ever assigned are exactly 1..N and none is assigned twice.
C1_SeqNeverReused ==
    \A c \in Chats : \A k \in 1..Len(assigned[c]) : assigned[c][k] = k

\* C2: no two mailboxes of a chat share a user_seq, and no two share an address,
\* however two db_save_mailbox calls interleave.
C2_UniqueSeqAndAddress ==
    \A m1 \in mailboxes, m2 \in mailboxes :
        (m1 # m2 /\ m1.chat_id = m2.chat_id)
            => (m1.user_seq # m2.user_seq /\ m1.address # m2.address)

\* Two callers saved different addresses for one chat with the same next_seq.
C2_Witness ==
    \E p \in Callers, q \in Callers :
        /\ p # q
        /\ procs[p].chat = procs[q].chat
        /\ procs[p].address # procs[q].address
        /\ procs[p].next_seq = procs[q].next_seq
        /\ procs[p].pc \in {"select_id", "returned", "raised"}
        /\ procs[q].pc \in {"select_id", "returned", "raised"}

\* C3: when two db_save_mailbox calls for one chat, with different addresses,
\* computed the same next_seq, the one that loses the uniqueness conflict
\* retries: neither ends in an exception.
C3_LoserRetries ==
    \A p \in Callers, q \in Callers :
        (/\ p # q
         /\ procs[p].chat = procs[q].chat
         /\ procs[p].address # procs[q].address
         /\ procs[p].next_seq = procs[q].next_seq
         /\ procs[q].pc \in {"select_id", "returned", "raised"})
            => procs[p].pc # "raised"

\* Within one cycle and one chat, the k-th message handed to send_message
\* is the k-th from the end of the provider's listing of unseen messages, and
\* everything sent before it in the cycle was listed after it: the reverse of
\* the listed order, oldest first.
C4_Step(J) ==
    LET n == Len(J.new_ids)
        at == n - J.p + 1
        c == J.actives[J.i].chat_id
    IN  /\ delivered' = delivered (+) SetToBag({SeenRow(c, J.new_ids[at])})
        /\ \A a \in 1..Len(J.sent) : Pos(J.new_ids, J.sent[a]) > at
        /\ \A a \in 1..Len(J.sent), b \in 1..Len(J.sent) :
               a < b => Pos(J.new_ids, J.sent[a]) > Pos(J.new_ids, J.sent[b])
        /\ Len(J.sent) = J.p - 1 => \A a \in 1..Len(J.sent) : J.sent[a] = J.new_ids[n - a + 1]

\* C4: every message a cycle sends to a chat is sent in the reverse of the
\* order the provider listed the unseen messages in (oldest first).
C4_OldestFirst ==
    [][\A j \in JobIds :
          (jobs[j].pc = "send" /\ delivered' # delivered) => C4_Step(jobs[j])]_vars

\* The last of three listed messages is about to be sent after the other two.
C4_Witness ==
    \E j \in JobIds :
        /\ jobs[j].pc = "send"
        /\ jobs[j].new_ids = <<3, 2, 1>>
        /\ jobs[j].p = 3
        /\ jobs[j].sent = <<1, 2>>

HasToken(J, idx) == db_get_token(J.actives[idx].chat_id, J.actives[idx].mailbox_id) # {}

\* The job goes on from record J to record K without dropping a message of the
\* chat at hand or a later chat of the cycle.
C5_Continues(J, K) ==
    \/ J.pc = "read" /\ K = [J EXCEPT !.pc = "send"]
    \/ /\ J.pc = "list"
       /\ K.pc = "read" /\ K.i = J.i /\ K.actives = J.actives /\ K.p = 1
    \/ /\ J.pc \in {"read", "send"}
       /\ J.p < Len(J.new_ids)
       /\ K.pc = "read" /\ K.i = J.i /\ K.actives = J.actives
       /\ K.new_ids = J.new_ids /\ K.p = J.p + 1
    \/ /\ J.pc = "list" \/ J.p = Len(J.new_ids)
       /\ \/ /\ K.pc = "list" /\ K.actives = J.actives /\ K.i > J.i
             /\ HasToken(J, K.i)
             /\ \A idx \in (J.i + 1)..(K.i - 1) : ~HasToken(J, idx)
          \/ /\ K.pc = "idle"
             /\ \A idx \in (J.i + 1)..Len(J.actives) : ~HasToken(J, idx)

\* C5: a failure of read, format or send leaves the message unseen and the
\* cycle goes on with the next message of the chat, then with the next chat;
\* a failed listing skips that chat only.
C5_FailureIsolated ==
    [][\A j \in JobIds :
          (jobs[j].pc # "idle" /\ jobs'[j] # jobs[j])
              => /\ C5_Continues(jobs[j], jobs'[j])
                 /\ delivered' = delivered => seen' = seen]_vars

\* A message of the batch failed, and the job is at a later message of it.
C5_Witness ==
    \E j \in JobIds :
        LET J == jobs[j]
        IN  /\ J.pc \in {"read", "send"}
            /\ J.p >= 2
            /\ ~db_is_seen(seen, J.actives[J.i].chat_id, J.new_ids[Len(J.new_ids)])
            /\ J.i < Len(J.actives)

\* C6: no [chat_id, message_id] is sent twice.
C6_AtMostOnce ==
    \A r \in BagToSet(delivered) : CopiesIn(r, delivered) = 1

\* A chat is polled again while a message already sent to it is still listed.
C6_Witness ==
    \E j \in JobIds :
        LET J == jobs[j]
        IN  /\ J.pc \in {"read", "send"}
            /\ \E n \in 1..Len(inbox[J.token]) :
                   /\ BagIn(SeenRow(J.actives[J.i].chat_id, inbox[J.token][n]), delivered)
                   /\ Pos(J.new_ids, inbox[J.token][n]) = 0

C8_PointerValid ==
    /\ \A a \in active, b \in active : a.chat_id = b.chat_id => a = b
    /\ \A a \in active :
           \E m \in mailboxes : m.id = a.mailbox_id /\ m.chat_id = a.chat_id

\* A chat made two mailboxes, went back to the first and deleted the second.
C8_Witness ==
    \E c \in Chats :
        /\ Len(assigned[c]) = 2
        /\ \E m \in mailboxes :
               /\ RowsOf(mailboxes, c) = {m}
               /\ m.user_seq = 1
               /\ Pointers(c) = {[chat_id |-> c, mailbox_id |-> m.id]}

\* C9: db_delete_saved_by_seq on an existing mailbox removes it and returns
\* true, removing the chat's pointer when it named that mailbox and leaving the
\* pointers as they were when it did not; on an unknown user_seq it returns
\* false and changes nothing.
C9_DeleteBySeq ==
    \A c \in Chats, n \in 1..(MaxMailboxes + 1) :
        LET res == db_delete_saved_by_seq(c, n)
            target == {m \in mailboxes : m.chat_id = c /\ m.user_seq = n}
            wasActive == \E m \in target, a \in active :
                            a.chat_id = c /\ a.mailbox_id = m.id
        IN  IF target = {}
            THEN ~res.ok /\ res.mailboxes = mailboxes /\ res.active = active
            ELSE /\ res.ok
                 /\ res.mailboxes = mailboxes \ target
                 /\ IF wasActive
                    THEN res.active = {a \in active : a.chat_id # c}
                    ELSE res.active = active

\* A chat with a pending delete, an active mailbox and another saved one.
C9_Witness ==
    \E c \in Chats :
        /\ DELETE_SAVED_MODE \in mode[c]
        /\ Cardinality(RowsOf(mailboxes, c)) = 2
        /\ Pointers(c) # {}

\* The ledger holds one row per key; marking makes the key seen, changes nothing
\* when it was seen already, and removes no row.
C10_Ledger ==
    /\ \A r \in BagToSet(seen) : CopiesIn(r, seen) = 1
    /\ \A c \in Chats, mid \in 1..MaxMsgs :
           /\ db_is_seen(db_mark_seen(seen, c, mid), c, mid)
           /\ db_is_seen(seen, c, mid) => db_mark_seen(seen, c, mid) = seen
           /\ \A r \in BagToSet(seen) : BagIn(r, db_mark_seen(seen, c, mid))

\* C10: db_mark_seen makes db_is_seen true, a second db_mark_seen of the key
\* leaves the ledger as it is with one row for the key, and a row of the ledger
\* is never removed.
C10_MarkSeenIdempotent ==
    /\ []C10_Ledger
    /\ [][\A r \in BagToSet(seen) : BagIn(r, seen')]_vars

\* Two messages are in the ledger.
C10_Witness ==
    \E c \in Chats, m1 \in 1..MaxMsgs, m2 \in 1..MaxMsgs :
        m1 # m2 /\ db_is_seen(seen, c, m1) /\ db_is_seen(seen, c, m2)

-----------------------------------------------------------------------------
(* The conversation: a step of SpecTalk is one run of handle_text, on the   *)
(* update recorded in update'.                                              *)

\* The step handles text t (after strip) from chat c.
Handles(c, t) == update'.chat = c /\ strip(update'.text) = t

\* The tables of the store are left as they were.
StoreSame == mailboxes' = mailboxes /\ active' = active /\ seen' = seen

\* C11: the back-to-menu text leaves the chat with no pending flag, whatever
\* flags were pending, and leaves the store as it was.
C11_BackToIdle ==
    [][\A c \in Chats : Handles(c, BTN_BACK) => (mode'[c] = {} /\ StoreSame)]_vars

\* Back was handled while two flags were pending and the store was not empty.
C11_Witness ==
    /\ strip(update.text) = BTN_BACK
    /\ Cardinality(update.user_data) >= 2
    /\ mode[update.chat] = {}
    /\ RowsOf(mailboxes, update.chat) # {}
    /\ Pointers(update.chat) # {}

MenuCommands == {BTN_NEW, BTN_CURRENT, BTN_LIST, BTN_DELETE, BTN_HELP}

\* The replies that prompt again for the input of a pending mode.
RePrompts ==
    {"Send numeric ID or tap Back.", "Invalid ID. Try again.",
     "Format: ID Name or tap Back."}

RePrompted == ~reply'.raised /\ reply'.text \in RePrompts /\ reply'.markup = MODE_MENU

\* C12: a menu command received while a flag is pending is answered with a
\* re-prompt, keeps the flags and leaves the store as it was; received with no
\* flag pending it leaves the chat with no flag pending.
C12_MenuOnlyInIdle ==
    [][\A c \in Chats, t \in MenuCommands :
          Handles(c, t) =>
              IF mode[c] # {}
              THEN RePrompted /\ mode'[c] = mode[c] /\ StoreSame
              ELSE mode'[c] = {}]_vars

\* C13: at most one of the three flags is pending for a chat.
C13_OneMode ==
    \A c \in Chats : Cardinality(mode[c]) <= 1

\* The mode whose branch of handle_text acts on a reply: the branches are tried
\* in the order reuse, delete saved, rename.
AwaitingReuseId(c) == REUSE_MODE \in mode[c]
AwaitingDeleteId(c) == DELETE_SAVED_MODE \in mode[c] /\ REUSE_MODE \notin mode[c]
AwaitingRenameInput(c) == mode[c] = {RENAME_MODE}

\* The bare integers among the texts, each with the number it writes.
Numerals == {<<<<"1">>, 1>>, <<<<"2">>, 2>>, <<<<"0", "2">>, 2>>}

PointerTo(m) == [chat_id |-> m.chat_id, mailbox_id |-> m.id]

\* C14: a bare integer naming a mailbox of the chat, received while the reuse
\* id is awaited, makes that mailbox the chat's active one and leaves no flag
\* pending; received while the delete id is awaited, it removes the mailbox,
\* and the pointer when it named that mailbox, and leaves no flag pending.
C14_ModeSuccess ==
    [][\A c \in Chats, tn \in Numerals, m \in mailboxes :
          (Handles(c, tn[1]) /\ m.chat_id = c /\ m.user_seq = tn[2]) =>
              /\ AwaitingReuseId(c) =>
                     /\ {a \in active' : a.chat_id = c} = {PointerTo(m)}
                     /\ mailboxes' = mailboxes
                     /\ mode'[c] = {}
              /\ AwaitingDeleteId(c) =>
                     /\ mailboxes' = mailboxes \ {m}
                     /\ active' = active \ {PointerTo(m)}
                     /\ mode'[c] = {}]_vars

\* A text made of decimal digits only.
BareInteger(t) == t # <<>> /\ \A i \in 1..Len(t) : t[i] \in AsciiDigits

\* The mailboxes of chat c that the bare integer t names.
NamedBy(c, t) ==
    {m \in RowsOf(mailboxes, c) : \E tn \in Numerals : tn[1] = t /\ tn[2] = m.user_seq}

\* The ways to read t as '<integer> <non-empty rest>': the integer is the
\* first k characters, a space follows, and something other than spaces
\* follows that.
Payloads(t) ==
    {k \in 1..Len(t) :
        /\ BareInteger(SubSeq(t, 1, k))
        /\ k < Len(t) /\ t[k + 1] = " "
        /\ \E i \in (k + 2)..Len(t) : t[i] # " "}

\* The text t, from chat c, is invalid input for the pending mode.
InvalidInput(c, t) ==
    \/ /\ AwaitingReuseId(c) \/ AwaitingDeleteId(c)
       /\ ~BareInteger(t) \/ NamedBy(c, t) = {}
    \/ /\ AwaitingRenameInput(c)
       /\ \A k \in Payloads(t) : NamedBy(c, SubSeq(t, 1, k)) = {}

\* C15: invalid input for the pending mode (no menu text) is answered with a
\* re-prompt and leaves the flags and the store as they were.
C15_InvalidInput ==
    [][\A c \in Chats, raw \in Texts :
          (/\ Handles(c, strip(raw))
           /\ ~IsMenuInput(strip(raw))
           /\ InvalidInput(c, strip(raw)))
              => (RePrompted /\ mode'[c] = mode[c] /\ StoreSame)]_vars

\* The buttons that ask for a mode, each with the reply that refuses it.
ModeRequests ==
    {<<BTN_REUSE, "No saved mails to reuse.">>,
     <<BTN_RENAME, "No saved mails to rename.">>,
     <<BTN_DELETE_SAVED, "No saved mails to delete.">>}

\* C16: a reuse, rename or delete-saved request of a chat without a saved
\* mailbox is refused with its message, sets no flag (an idle chat stays idle)
\* and leaves the store as it was; and a step that sets a flag for a chat is
\* taken only when the chat has a saved mailbox.
C16_ModeNeedsMailbox ==
    [][\A c \in Chats :
          /\ \A req \in ModeRequests :
                 (Handles(c, req[1]) /\ RowsOf(mailboxes, c) = {}) =>
                     /\ ~reply'.raised
                     /\ reply'.text = req[2]
                     /\ reply'.markup = MAIN_MENU
                     /\ mode'[c] = mode[c]
                     /\ StoreSame
          /\ ~(mode'[c] \subseteq mode[c]) => RowsOf(mailboxes, c) # {}]_vars

\* An idle chat that has deleted its only mailbox asked to rename and was refused.
C16_Witness ==
    /\ strip(update.text) = BTN_RENAME
    /\ update.user_data = {}
    /\ reply.text = "No saved mails to rename."
    /\ update.chat \in Chats
    /\ Len(assigned[update.chat]) >= 1
    /\ RowsOf(mailboxes, update.chat) = {}
    /\ mode[update.chat] = {}

\* The rest of the payload t whose integer is its first k characters: what
\* follows the spaces after the integer.
RestOf(t, k) ==
    LET i == CHOOSE i \in (k + 2)..Len(t) :
                 t[i] # " " /\ \A j \in (k + 1)..(i - 1) : t[j] = " "
    IN  SubSeq(t, i, Len(t))

\* The first n characters of s, or s when it has fewer.
FirstChars(s, n) == [i \in 1..(IF Len(s) < n THEN Len(s) ELSE n) |-> s[i]]

C17_LabelsShort == \A m \in mailboxes : Len(m.label) <= NameMax

C17_Step ==
    \A c \in Chats, raw \in Texts :
        LET t == strip(raw)
        IN  \A k \in Payloads(t) :
                (Handles(c, t) /\ AwaitingRenameInput(c)) =>
                    LET named == NamedBy(c, SubSeq(t, 1, k))
                        label == FirstChars(RestOf(t, k), NameMax)
                    IN  IF named # {}
                        THEN /\ mailboxes' = {IF m \in named
                                              THEN [m EXCEPT !.label = label]
                                              ELSE m : m \in mailboxes}
                             /\ active' = active /\ seen' = seen
                             /\ mode'[c] = {}
                             /\ reply'.text = "Renamed successfully."
                        ELSE /\ StoreSame
                             /\ reply'.text = "Invalid ID. Try again."

\* C17: while the rename input is awaited, '<integer> <rest>' naming a mailbox
\* of the chat sets that mailbox's label to the first 25 characters of the
\* rest, changes no other mailbox and leaves no flag pending; naming no
\* mailbox it reports failure and changes nothing; and no stored label is
\* longer than 25 characters.
C17_Rename ==
    /\ []C17_LabelsShort
    /\ [][C17_Step]_vars

\* Mailbox 2 of a chat is labelled "W M" by the text "2  W M", another chat
\* has a mailbox, and the label of the chat's mailbox 1 was cut to 25 characters.
C17_Witness ==
    \E c \in Chats, m1 \in mailboxes, m2 \in mailboxes :
        /\ update = [chat |-> c, text |-> <<"2", " ", " ", "W", " ", "M">>,
                     user_data |-> {RENAME_MODE}]
        /\ m1.chat_id = c /\ m1.user_seq = 1 /\ m1.label = LongName(NameMax)
        /\ m2.chat_id = c /\ m2.user_seq = 2 /\ m2.label = <<"W", " ", "M">>
        /\ mode[c] = {}

\* C18: remove-current deletes the pointer of the chat and nothing else: the
\* mailboxes (their user_seq, labels, tokens) and the other chats' pointers
\* are as before, and the mailbox that was active is still found by its
\* user_seq, so that reuse sets the pointer back; without an active mailbox
\* the reply is 'No active mail.' and nothing changes.
C18_RemoveCurrent ==
    [][\A c \in Chats :
          Handles(c, BTN_DELETE) =>
              /\ mailboxes' = mailboxes
              /\ seen' = seen
              /\ IF Pointers(c) = {}
                 THEN active' = active /\ reply'.text = "No active mail."
                 ELSE /\ active' = active \ Pointers(c)
                      /\ reply'.text = "Current mail removed"
                      /\ \A a \in Pointers(c) :
                             \E m \in mailboxes' :
                                 /\ m.chat_id = c /\ m.id = a.mailbox_id
                                 /\ {x \in mailboxes' :
                                        x.chat_id = c /\ x.user_seq = m.user_seq} = {m}
                                 /\ db_set_active_mailbox(active', c, m.id) = active]_vars

\* A chat removed its current mail, keeps two saved mailboxes, one of them
\* labelled, and is left without a pointer.
C18_Witness ==
    \E c \in Chats :
        /\ update.chat = c /\ strip(update.text) = BTN_DELETE
        /\ reply.text = "Current mail removed"
        /\ Pointers(c) = {}
        /\ Cardinality(RowsOf(mailboxes, c)) = 2
        /\ \E m \in RowsOf(mailboxes, c) : m.label # NULL

\* A chat removed its current mail while another chat has an active mailbox.
C18_WitnessOthers ==
    \E c \in Chats :
        /\ update.chat = c /\ strip(update.text) = BTN_DELETE
        /\ reply.text = "Current mail removed"
        /\ active # {}

\* The update asks for a new mail: the new-mail button or /start.
AsksNewMail == strip(update.text) = BTN_NEW \/ lower(strip(update.text)) = CMD_START

\* C19: a run of handle_text on a new-mail request does not end in an
\* exception, and not with the progress notice as its last reply: when the
\* provider fails, a failure reply follows the notice.
C19_FailureReply ==
    AsksNewMail => (~reply.raised /\ reply.text # "Creating")

\* The mailbox of provider account a is the active mailbox of chat c.
ActiveIs(c, a) ==
    \E m \in mailboxes : m.chat_id = c /\ m.token = a /\ PointerTo(m) \in active

\* Message mid is listed for account a, the active mailbox of chat c, and is
\* not in the ledger for c.
Pending(c, a, mid) ==
    /\ ActiveIs(c, a)
    /\ Pos(inbox[a], mid) > 0
    /\ ~BagIn(SeenRow(c, mid), seen)

\* C20: a message that is listed for the active mailbox of a chat and is unseen
\* for the chat (skipped by a cycle or not yet polled) is in the end sent to the
\* chat and marked seen, unless the mailbox stops being the chat's active one.
C20_Retried ==
    \A c \in Chats, a \in 1..MaxMailboxes, mid \in 1..MaxMsgs :
        Pending(c, a, mid) ~>
            \/ BagIn(SeenRow(c, mid), delivered) /\ BagIn(SeenRow(c, mid), seen)
            \/ ~ActiveIs(c, a)

\* A cycle is sending message 1 alone while message 2, listed after it, is in
\* the ledger already: message 1 was skipped by an earlier cycle.
C20_Witness ==
    \E j \in JobIds :
        /\ jobs[j].pc = "send"
        /\ jobs[j].new_ids = <<1>>
        /\ inbox[jobs[j].token] = <<2, 1>>
        /\ BagIn(SeenRow(ChatOf(jobs[j]), 2), delivered)
        /\ ActiveIs(ChatOf(jobs[j]), jobs[j].token)

\* The response is a success; the response is the provider's rejection of an
\* address that is taken (422 Unprocessable Entity).
Succeeded(r) == ~r.raised /\ r.status \in 200..299
Collision(r) == ~r.raised /\ r.status = 422

\* C21: a call posts at most two addresses; the second only after the first
\* was rejected as a collision, and with a longer local part; any other
\* failure of the first post and any failure of the second end the call in
\* the error; and the token is requested only after a post succeeded, for the
\* address of that post.
C21_CreateAccount ==
    \A c \in Chats :
        LET K == create[c]
            n == Len(K.answers)
        IN  /\ Len(K.posted) <= 2
            /\ Len(K.posted) = 2 =>
                   /\ Collision(K.answers[1])
                   /\ K.posted[2].local > K.posted[1].local
            /\ (n >= 1 /\ ~Succeeded(K.answers[1]) /\ ~Collision(K.answers[1]))
                   => K.pc = "raised"
            /\ (n = 2 /\ ~Succeeded(K.answers[2])) => K.pc = "raised"
            /\ K.token_for # {} =>
                   /\ n = Len(K.posted)
                   /\ Succeeded(K.answers[n])
                   /\ K.token_for = {K.posted[n]}

\* C22: when a running cycle hands a message to send_message for a chat, the
\* token it fetched the message with is the token of the mailbox that the
\* chat's pointer names at that moment, whatever the handlers of the chat did
\* (reuse, remove-current, delete-saved) since the cycle read the pointers.
C22_DeliversFromActive ==
    [][\A j \in JobIds :
           (jobs[j].pc = "read" /\ jobs'[j].pc = "send")
               => ActiveIs(ChatOf(jobs[j]), jobs[j].token)]_vars

=============================================================================
